---- MODULE Spec2Model ----
(***************************************************************************)
(* Model of the SSL Sync addon (src/main/main.py): one run of main(), the  *)
(* helper functions it calls, and the remote/local effects of the run.     *)
(* Python strings are sequences of one-character strings, so that          *)
(* lower(), strip(), endswith() and slicing are computed, not assumed.     *)
(***************************************************************************)
EXTENDS Integers, Sequences, FiniteSets, TLC

(***************************************************************************)
(* Bounds                                                                  *)
(***************************************************************************)
\* Longest configured destination list ("copy") explored.
MaxDests == 2

(***************************************************************************)
(* Python values                                                           *)
(***************************************************************************)
\* Python None where a string is expected (config.get of an absent key).
None == <<"<None>">>

\* An absent host_port (copy_cfg.get("host_port") returning None).
NoPort == -1

UpperLetters == <<"A","B","C","D","E","F","G","H","I","J","K","L","M",
                  "N","O","P","Q","R","S","T","U","V","W","X","Y","Z">>

LowerLetters == <<"a","b","c","d","e","f","g","h","i","j","k","l","m",
                  "n","o","p","q","r","s","t","u","v","w","x","y","z">>

\* str.lower() on one character.
LowerChar(c) ==
    IF \E i \in 1..Len(UpperLetters) : UpperLetters[i] = c
    THEN LowerLetters[CHOOSE i \in 1..Len(UpperLetters) : UpperLetters[i] = c]
    ELSE c

\* str.lower()
Lower(s) == [i \in 1..Len(s) |-> LowerChar(s[i])]

\* Characters str.strip() removes.
Whitespace == {" ", "\t", "\n"}

RECURSIVE LStrip(_)
LStrip(s) == IF s # <<>> /\ Head(s) \in Whitespace THEN LStrip(Tail(s)) ELSE s

RECURSIVE RStrip(_)
RStrip(s) ==
    IF s # <<>> /\ s[Len(s)] \in Whitespace
    THEN RStrip(SubSeq(s, 1, Len(s) - 1))
    ELSE s

\* str.strip()
Strip(s) == LStrip(RStrip(s))

\* str.endswith(suffix)
EndsWith(s, suffix) ==
    /\ Len(s) >= Len(suffix)
    /\ SubSeq(s, Len(s) - Len(suffix) + 1, Len(s)) = suffix

\* s[:-4]: drops the last four characters (empty when s is shorter).
DropLast4(s) == IF Len(s) <= 4 THEN <<>> ELSE SubSeq(s, 1, Len(s) - 4)

\* Truthiness of a Python string value (None and "" are falsy).
Truthy(s) == s # None /\ s # <<>>

\* x or default, for string values.
OrElse(x, default) == IF Truthy(x) THEN x ELSE default

DotPem == <<".", "p", "e", "m">>
DotPfx == <<".", "p", "f", "x">>

(***************************************************************************)
(* resolve_remote_filename                                                 *)
(***************************************************************************)
\* The candidate list built for a truthy target_name.
Variants(target_name) ==
    IF EndsWith(Lower(target_name), DotPem)
    THEN <<target_name, DropLast4(target_name)>>
    ELSE <<target_name, target_name \o DotPem>>

\* First element of the sequence vs that is in the set available, else None.
FirstIn(vs, available) ==
    IF \E i \in 1..Len(vs) : vs[i] \in available
    THEN vs[CHOOSE i \in 1..Len(vs) :
                /\ vs[i] \in available
                /\ \A j \in 1..(i-1) : vs[j] \notin available]
    ELSE None

\* Variant: the suffix test is case-sensitive (target_name.endswith(".pem")).
resolve_remote_filename_CaseSensitive(available_files, target_name) ==
    IF ~Truthy(target_name)
    THEN None
    ELSE FirstIn(IF EndsWith(target_name, DotPem)
                 THEN <<target_name, DropLast4(target_name)>>
                 ELSE <<target_name, target_name \o DotPem>>,
                 available_files)

resolve_remote_filename(available_files, target_name) ==
    IF ~Truthy(target_name)
    THEN None
    ELSE FirstIn(Variants(target_name), available_files)

(***************************************************************************)
(* is_local_target                                                         *)
(***************************************************************************)
ExampleCom == <<"e","x","a","m","p","l","e",".","c","o","m">>

\* not host_port
PortFalsy(host_port) == host_port = NoPort \/ host_port = 0

\* Variant: the host address is lower-cased but not stripped.
is_local_target_NoStrip(copy_cfg) ==
    LET host_address == Lower(OrElse(copy_cfg.host_address, <<>>))
        host_port    == copy_cfg.host_port
    IN  host_address \in {<<>>, ExampleCom} \/ PortFalsy(host_port)

is_local_target(copy_cfg) ==
    LET host_address == Lower(Strip(OrElse(copy_cfg.host_address, <<>>)))
        host_port    == copy_cfg.host_port
    IN  host_address \in {<<>>, ExampleCom} \/ PortFalsy(host_port)

(***************************************************************************)
(* The source directory and the material read from it                      *)
(***************************************************************************)
F_kpem == <<"k", ".", "p", "e", "m">>
F_cpem == <<"c", ".", "p", "e", "m">>
F_c    == <<"c">>

\* Names that may appear in the listing of the source directory.
SrcPool == {F_kpem, F_cpem, F_c}

\* Values explored for the configured ssl_privkey_name / ssl_cert_name.
PrivkeyNames == {<<"k">>, <<"c">>}
CertNames == {F_cpem, <<"c", ".", "P", "E", "M">>}

\* Bytes stored on the source server under a name: k.pem holds a PEM private
\* key, the other files hold a PEM certificate.
Content(filename) ==
    [kind |-> IF filename = F_kpem THEN "key" ELSE "cert", src |-> filename]

\* A listing: for every pool name, whether it is absent, a file or a
\* directory (only the extensionless name is explored as a directory).
Listings ==
    {l \in [SrcPool -> {"absent", "file", "dir"}] :
        \A f \in SrcPool : l[f] = "dir" => f = F_c}

\* {item.filename for item in items if not stat.S_ISDIR(item.st_mode)}
AvailableFiles(items) == {f \in SrcPool : items[f] = "file"}

\* fetch_ssl_files returning None.
NoBytes == [kind |-> "none", src |-> None]

NoFiles ==
    [ok |-> FALSE, privkey_name |-> None, cert_name |-> None,
     privkey_bytes |-> NoBytes, cert_bytes |-> NoBytes]

\* Outcomes of the I/O done by fetch_ssl_files: the listing raises, the first
\* or the second read raises, or every call made succeeds.
FetchIO == {"ok", "list_raises", "read1_raises", "read2_raises"}

\* fetch_ssl_files(sftp, remote_path, privkey_name, cert_name) on a directory
\* whose listing is items, under I/O outcome io.  ret is the returned value,
\* raised the exception that left the function ("none" when it returned),
\* lists the number of listings issued, reads the names whose read was
\* issued, report what was printed about a missing name.
\* Variant: the private key is read before the certificate name is checked.
fetch_ssl_files_ReadsBeforeCheck(items, privkey_name, cert_name, io) ==
    LET available_files  == AvailableFiles(items)
        privkey_filename == resolve_remote_filename(available_files, privkey_name)
        cert_filename    == resolve_remote_filename(available_files, cert_name)
        base == [ret |-> NoFiles, raised |-> "none", lists |-> 1,
                 reads |-> <<>>, report |-> "none"]
    IN  IF io = "list_raises"
        THEN [base EXCEPT !.raised = "ListFailure"]
        ELSE IF ~Truthy(privkey_filename)
        THEN [base EXCEPT !.report = "privkey_not_found"]
        ELSE IF io = "read1_raises"
        THEN [base EXCEPT !.raised = "ReadFailure",
                          !.reads = <<privkey_filename>>]
        ELSE IF ~Truthy(cert_filename)
        THEN [base EXCEPT !.report = "cert_not_found",
                          !.reads = <<privkey_filename>>]
        ELSE IF io = "read2_raises"
        THEN [base EXCEPT !.raised = "ReadFailure",
                          !.reads = <<privkey_filename, cert_filename>>]
        ELSE [base EXCEPT
                !.reads = <<privkey_filename, cert_filename>>,
                !.ret = [ok |-> TRUE,
                         privkey_name  |-> privkey_filename,
                         cert_name     |-> cert_filename,
                         privkey_bytes |-> Content(privkey_filename),
                         cert_bytes    |-> Content(cert_filename)]]

fetch_ssl_files(items, privkey_name, cert_name, io) ==
    LET available_files  == AvailableFiles(items)
        privkey_filename == resolve_remote_filename(available_files, privkey_name)
        cert_filename    == resolve_remote_filename(available_files, cert_name)
        base == [ret |-> NoFiles, raised |-> "none", lists |-> 1,
                 reads |-> <<>>, report |-> "none"]
    IN  IF io = "list_raises"
        THEN [base EXCEPT !.raised = "ListFailure"]
        ELSE IF ~Truthy(privkey_filename)
        THEN [base EXCEPT !.report = "privkey_not_found"]
        ELSE IF ~Truthy(cert_filename)
        THEN [base EXCEPT !.report = "cert_not_found"]
        ELSE IF io = "read1_raises"
        THEN [base EXCEPT !.raised = "ReadFailure",
                          !.reads = <<privkey_filename>>]
        ELSE IF io = "read2_raises"
        THEN [base EXCEPT !.raised = "ReadFailure",
                          !.reads = <<privkey_filename, cert_filename>>]
        ELSE [base EXCEPT
                !.reads = <<privkey_filename, cert_filename>>,
                !.ret = [ok |-> TRUE,
                         privkey_name  |-> privkey_filename,
                         cert_name     |-> cert_filename,
                         privkey_bytes |-> Content(privkey_filename),
                         cert_bytes    |-> Content(cert_filename)]]

(***************************************************************************)
(* build_pfx_bytes                                                         *)
(***************************************************************************)
\* load_pem_private_key raises unless the bytes are a PEM key, and
\* load_pem_x509_certificate raises unless they are a PEM certificate.
BuildRaises(privkey_bytes, cert_bytes) ==
    privkey_bytes.kind # "key" \/ cert_bytes.kind # "cert"

\* The PKCS12 blob: name is None when friendly_name is falsy, password is None
\* for NoEncryption.
build_pfx_bytes(privkey_bytes, cert_bytes, password, friendly_name) ==
    [kind     |-> "pfx",
     key      |-> privkey_bytes,
     cert     |-> cert_bytes,
     name     |-> IF Truthy(friendly_name) THEN friendly_name ELSE None,
     password |-> IF Truthy(password) THEN password ELSE None]

(***************************************************************************)
(* Destination entries                                                     *)
(***************************************************************************)
DefaultPort == 22

H1 == <<"h", "1">>
H2 == <<"h", "2">>
Hosts == {H1, H2}

P_out  == <<"/", "o">>
P_ab   == <<"/", "a", "/", "b">>
Dot    == <<".">>
Certificate == <<"c","e","r","t","i","f","i","c","a","t","e">>

Dest(ssl_name, host, port, path, convert, pw) ==
    [ssl_name |-> ssl_name, host_address |-> host, host_port |-> port,
     host_username |-> <<"u">>, host_password |-> <<"w">>,
     path |-> path, convert_to_PFX |-> convert, ssl_password |-> pw]

\* The destination entries from which the "copy" list is drawn.
DestPool ==
    { Dest(<<"m">>, <<>>, NoPort, P_out, FALSE, None),
      Dest(<<"m">>, H1, 22, P_ab, FALSE, None),
      Dest(<<"m">>, <<"E","x","a","m","p","l","e",".","C","O","M">>, 22,
           None, TRUE, <<"s">>),
      Dest(<<"m", ".", "P", "F", "X">>, H2, 2222, P_ab, TRUE, None),
      Dest(None, <<" ","e","x","a","m","p","l","e",".","c","o","m"," ">>, 22,
           P_out, FALSE, None),
      Dest(<<>>, H1, 0, P_out, TRUE, <<>>) }

\* Variant: ssl_name is used as configured, without the default.
PfxSslName_NoDefault(copy_cfg) ==
    IF copy_cfg.ssl_name = None THEN <<>> ELSE copy_cfg.ssl_name

\* ssl_name of line 207.
PfxSslName(copy_cfg) == OrElse(copy_cfg.ssl_name, Certificate)

\* Variant: ".pfx" is appended without looking at the name.
PfxFilename_AlwaysAppends(copy_cfg) == PfxSslName(copy_cfg) \o DotPfx

PfxFilename(copy_cfg) ==
    LET ssl_name == PfxSslName(copy_cfg)
    IN  IF EndsWith(Lower(ssl_name), DotPfx) THEN ssl_name ELSE ssl_name \o DotPfx

\* target_path = copy_cfg.get("path") or "."
TargetPath(copy_cfg) == OrElse(copy_cfg.path, Dot)

\* The files one destination is to receive, in the order they are written.
PfxPayload(copy_cfg, files) ==
    << [name |-> PfxFilename(copy_cfg),
        data |-> build_pfx_bytes(files.privkey_bytes, files.cert_bytes,
                                 OrElse(copy_cfg.ssl_password, <<>>),
                                 PfxSslName(copy_cfg))] >>

\* Variant: each file's bytes are written under the other file's name.
PemPayload_SwappedNames(files) ==
    << [name |-> files.cert_name,    data |-> files.privkey_bytes],
       [name |-> files.privkey_name, data |-> files.cert_bytes] >>

\* Variant: the certificate bytes are written under both names.
PemPayload_CertBytesTwice(files) ==
    << [name |-> files.privkey_name, data |-> files.cert_bytes],
       [name |-> files.cert_name,    data |-> files.cert_bytes] >>

PemPayload(files) ==
    << [name |-> files.privkey_name, data |-> files.privkey_bytes],
       [name |-> files.cert_name,    data |-> files.cert_bytes] >>

Payload(copy_cfg, files) ==
    IF copy_cfg.convert_to_PFX THEN PfxPayload(copy_cfg, files)
                               ELSE PemPayload(files)

(***************************************************************************)
(* Paths, ensure_remote_dir, write_remote_file, write_local_file           *)
(***************************************************************************)
\* str.split("/"): the pieces between slashes, empty pieces included.
RECURSIVE SplitSlash(_, _)
SplitSlash(s, piece) ==
    IF s = <<>> THEN <<piece>>
    ELSE IF Head(s) = "/" THEN <<piece>> \o SplitSlash(Tail(s), <<>>)
    ELSE SplitSlash(Tail(s), Append(piece, Head(s)))

\* [p for p in remote_dir.split("/") if p]
Parts(remote_dir) == SelectSeq(SplitSlash(remote_dir, <<>>), LAMBDA p : p # <<>>)

\* str.rstrip("/")
RECURSIVE RStripSlash(_)
RStripSlash(s) ==
    IF s # <<>> /\ s[Len(s)] = "/" THEN RStripSlash(SubSeq(s, 1, Len(s) - 1))
    ELSE s

\* posixpath.join(a, b) for a b that does not start with a slash.
PosixJoin(a, b) ==
    IF a = <<>> \/ a[Len(a)] = "/" THEN a \o b ELSE a \o <<"/">> \o b

\* The directory an SFTP server resolves relative paths against.
Home == << <<"h","o","m","e">> >>

\* The server's view of a path: the absolute sequence of its components,
\* "." components dropped, relative paths taken from Home.
Canon(path) ==
    LET comps == SelectSeq(Parts(path), LAMBDA p : p # Dot)
    IN  IF path # <<>> /\ Head(path) = "/" THEN comps ELSE Home \o comps

\* The directories every destination host starts with: the root and Home.
InitialDirs == {<<>>, Home}

\* "/" + "/".join(parts[:k]): the value of current in round k of the loop.
CurrentAt(parts, k) ==
    LET RECURSIVE Build(_)
        Build(j) == IF j = 0 THEN <<>>
                    ELSE Build(j - 1) \o <<"/">> \o parts[j]
    IN  Build(k)

\* ensure_remote_dir(sftp, remote_dir) on a host whose directories are dirs.
\* failAt is the round whose sftp.mkdir, if issued, raises (0: none does).
\* Returns the directories afterwards, the paths probed with sftp.stat and
\* created with sftp.mkdir in order, and whether the call raised.
RECURSIVE EnsureRounds(_, _, _, _)
EnsureRounds(parts, k, failAt, acc) ==
    IF k > Len(parts) THEN acc
    ELSE LET current == CurrentAt(parts, k)
             probed  == [acc EXCEPT !.probes = Append(@, current)]
         IN  IF Canon(current) \in acc.dirs
             THEN EnsureRounds(parts, k + 1, failAt, probed)
             ELSE IF failAt = k
             THEN [probed EXCEPT !.raised = TRUE]
             ELSE EnsureRounds(parts, k + 1, failAt,
                     [probed EXCEPT !.dirs = @ \cup {Canon(current)},
                                    !.mkdirs = Append(@, current)])

\* Variant: every prefix is created without being probed first; sftp.mkdir
\* raises for a directory that exists.
RECURSIVE EnsureRounds_AlwaysMkdir(_, _, _, _)
EnsureRounds_AlwaysMkdir(parts, k, failAt, acc) ==
    IF k > Len(parts) THEN acc
    ELSE LET current == CurrentAt(parts, k)
             issued  == [acc EXCEPT !.mkdirs = Append(@, current)]
         IN  IF failAt = k \/ Canon(current) \in acc.dirs
             THEN [issued EXCEPT !.raised = TRUE]
             ELSE EnsureRounds_AlwaysMkdir(parts, k + 1, failAt,
                     [issued EXCEPT !.dirs = @ \cup {Canon(current)}])

ensure_remote_dir_AlwaysMkdir(dirs, remote_dir, failAt) ==
    LET start == [dirs |-> dirs, probes |-> <<>>, mkdirs |-> <<>>,
                  raised |-> FALSE]
    IN  IF remote_dir = <<>> THEN start
        ELSE EnsureRounds_AlwaysMkdir(Parts(remote_dir), 1, failAt, start)

ensure_remote_dir(dirs, remote_dir, failAt) ==
    LET start == [dirs |-> dirs, probes |-> <<>>, mkdirs |-> <<>>,
                  raised |-> FALSE]
    IN  IF remote_dir = <<>> THEN start
        ELSE EnsureRounds(Parts(remote_dir), 1, failAt, start)

\* write_remote_file(sftp, target_dir, filename, data) on a host with
\* directories dirs and files files (a set of [path, data]).  openFails: the
\* sftp.open / write raises for a reason other than a missing directory.
write_remote_file(dirs, files, target_dir, filename, data, failAt, openFails) ==
    LET ens == ensure_remote_dir(dirs, target_dir, failAt)
        remote_file == PosixJoin(RStripSlash(target_dir), filename)
        fpath  == Canon(remote_file)
        parent == SubSeq(fpath, 1, Len(fpath) - 1)
        canOpen == fpath # <<>> /\ parent \in ens.dirs /\ fpath \notin ens.dirs
    IN  IF ens.raised
        THEN [raised |-> TRUE, dirs |-> ens.dirs, files |-> files,
              opened |-> None]
        ELSE IF openFails \/ ~canOpen
        THEN [raised |-> TRUE, dirs |-> ens.dirs, files |-> files,
              opened |-> remote_file]
        ELSE [raised |-> FALSE, dirs |-> ens.dirs,
              files |-> {f \in files : f.path # fpath}
                            \cup {[path |-> fpath, data |-> data]},
              opened |-> remote_file]

\* write_local_file(target_dir, filename, data) on a local disk holding files
\* (a set of [dir, name, data]).  fails: makedirs, open or write raises.
write_local_file(files, target_dir, filename, data, fails) ==
    IF fails
    THEN [raised |-> TRUE, files |-> files]
    ELSE [raised |-> FALSE,
          files |-> {f \in files : ~(f.dir = target_dir /\ f.name = filename)}
                        \cup {[dir |-> target_dir, name |-> filename,
                               data |-> data]}]

(***************************************************************************)
(* Sessions                                                                *)
(***************************************************************************)
SrcHost == <<"s", "r", "c">>

\* Outcomes of connect_sftp: both calls succeed, ssh.connect raises, or
\* ssh.connect succeeds and ssh.open_sftp raises.
ConnectIO == {"ok", "connect_raises", "open_sftp_raises"}

\* connect_sftp(host, port, username, password) called on behalf of owner
\* (0: the source, i: destination i).  sess lists every transport that a
\* connect brought up; handle is the index of the returned (ssh, sftp) pair,
\* 0 for (None, None).
connect_sftp(sess, owner, host, port, username, password, io) ==
    LET conn == [owner |-> owner, host |-> host, port |-> port,
                 username |-> username, password |-> password,
                 ssh |-> "open", sftp |-> "open",
                 ssh_closes |-> 0, sftp_closes |-> 0]
    IN  IF io = "connect_raises"
        THEN [sess |-> sess, handle |-> 0]
        ELSE IF io = "open_sftp_raises"
        THEN [sess |-> Append(sess, [conn EXCEPT !.sftp = "none"]), handle |-> 0]
        ELSE [sess |-> Append(sess, conn), handle |-> Len(sess) + 1]

\* The record of one connect_sftp call: who asked, the arguments and the
\* outcome.
ConnectCall(owner, host, port, username, password, io) ==
    [owner |-> owner, host |-> host, port |-> port, username |-> username,
     password |-> password, io |-> io]

\* Variant: only the sub-channel is closed, the transport is forgotten.
CloseSession_SftpOnly(sess, h) ==
    [sess EXCEPT ![h].sftp = "closed", ![h].sftp_closes = @ + 1]

\* sftp.close() followed by ssh.close() on the pair with index h.
CloseSession(sess, h) ==
    [sess EXCEPT ![h].sftp = "closed", ![h].ssh = "closed",
                 ![h].sftp_closes = @ + 1, ![h].ssh_closes = @ + 1]

\* The pair with index h can carry a request.
Usable(sess, h) == h \in 1..Len(sess) /\ sess[h].sftp = "open" /\ sess[h].ssh = "open"

\* {h} when a request on the pair with index h finds it not open.
StaleUse(sess, h) == IF Usable(sess, h) THEN {} ELSE {h}

(***************************************************************************)
(* Writing one destination's payload                                       *)
(***************************************************************************)
\* The write_local_file calls of one destination, in order; failIdx is the
\* call that raises (0: none).  written lists the files written.
RECURSIVE WriteAllLocal(_, _, _, _, _, _)
WriteAllLocal(files, target_path, payload, k, failIdx, written) ==
    IF k > Len(payload)
    THEN [raised |-> FALSE, files |-> files, written |-> written]
    ELSE LET w == write_local_file(files, target_path, payload[k].name,
                                   payload[k].data, failIdx = k)
         IN  IF w.raised
             THEN [raised |-> TRUE, files |-> w.files, written |-> written]
             ELSE WriteAllLocal(w.files, target_path, payload, k + 1, failIdx,
                                Append(written, payload[k]))

\* The write_remote_file calls of one destination, in order; failIdx is the
\* call whose open raises (0: none), failAt the round whose mkdir raises.
RECURSIVE WriteAllRemote(_, _, _, _, _, _, _, _)
WriteAllRemote(dirs, files, target_path, payload, k, failAt, failIdx, written) ==
    IF k > Len(payload)
    THEN [raised |-> FALSE, dirs |-> dirs, files |-> files, written |-> written]
    ELSE LET w == write_remote_file(dirs, files, target_path, payload[k].name,
                                    payload[k].data, failAt, failIdx = k)
         IN  IF w.raised
             THEN [raised |-> TRUE, dirs |-> w.dirs, files |-> w.files,
                   written |-> written]
             ELSE WriteAllRemote(w.dirs, w.files, target_path, payload, k + 1,
                                 failAt, failIdx, Append(written, payload[k]))

\* Entries added to the write log: chan 0 is the local disk, chan h > 0 the
\* session with index h.
LogEntries(dest, chan, target_path, written) ==
    [k \in 1..Len(written) |->
        [dest |-> dest, chan |-> chan, dir |-> target_path,
         name |-> written[k].name, data |-> written[k].data]]

(***************************************************************************)
(* State                                                                   *)
(***************************************************************************)
VARIABLES
    config,          \* options.json: ssl_privkey_name, ssl_cert_name, copy
    src_items,       \* the listing of ssh_path on the source server
    pc,              \* position of main()
    idx,             \* index of the next destination to process (1-based)
    sessions,        \* every transport brought up by connect_sftp
    sftp,            \* main's (ssh, sftp): index into sessions, 0 for None
    target_sftp,     \* main's (target_ssh, target_sftp), likewise
    ssl_files,       \* the value returned by fetch_ssl_files
    exc,             \* the exception propagating out of main ("none": none)
    outcome,         \* per destination: how its processing ended
    wlog,            \* every file written, in order
    local_files,     \* the local disk
    remote_dirs,     \* per destination host: its directories
    remote_files,    \* per destination host: its files
    reports,         \* failure messages printed
    src_reads,       \* names read from the source, in order
    src_lists,       \* number of listings of the source directory
    stale_use,       \* handles on which a request was sent while not open
    pfx_calls,       \* the build_pfx_bytes calls made, in order
    connects,        \* the connect_sftp calls made, in order
    call,            \* the function call under evaluation (function runs)
    ret              \* its result

vars == <<config, src_items, pc, idx, sessions, sftp, target_sftp, ssl_files,
          exc, outcome, wlog, local_files, remote_dirs, remote_files, reports,
          src_reads, src_lists, stale_use, pfx_calls, connects, call, ret>>

runVars == <<config, src_items, pc, idx, sessions, sftp, target_sftp,
             ssl_files, exc, outcome, wlog, local_files, remote_dirs,
             remote_files, reports, src_reads, src_lists, stale_use,
             pfx_calls, connects>>

NoCall == [fn |-> "none"]

NDests == Len(config.copy)

CopyLists == UNION {[1..n -> DestPool] : n \in 0..MaxDests}

\* The state main() starts in, for a configuration cfg and a listing items.
RunStart(cfg, items) ==
    /\ config = cfg
    /\ src_items = items
    /\ pc = "start"
    /\ idx = 1
    /\ sessions = <<>>
    /\ sftp = 0
    /\ target_sftp = 0
    /\ ssl_files = NoFiles
    /\ exc = "none"
    /\ outcome = [i \in 1..Len(cfg.copy) |-> "pending"]
    /\ wlog = <<>>
    /\ local_files = {}
    /\ remote_dirs = [h \in Hosts |-> InitialDirs]
    /\ remote_files = [h \in Hosts |-> {}]
    /\ reports = {}
    /\ src_reads = <<>>
    /\ src_lists = 0
    /\ stale_use = {}
    /\ pfx_calls = <<>>
    /\ connects = <<>>

Init ==
    /\ \E pk \in PrivkeyNames, cn \in CertNames, cl \in CopyLists,
          items \in Listings :
            RunStart([ssl_privkey_name |-> pk, ssl_cert_name |-> cn,
                      copy |-> cl], items)
    /\ call = NoCall
    /\ ret = None

(***************************************************************************)
(* main()                                                                  *)
(***************************************************************************)
\* Where main goes when fetch_ssl_files returns None: "return" inside the
\* try block, that is, to the finally clause.
\* Variant: the "if not ssl_files: return" is missing.
FetchFailedPc_FallsThrough == "loop"

FetchFailedPc == "finally"

\* Where main goes when connect_sftp fails for a destination: "continue".
\* Variant: a failed destination connect ends the run ("return").
ConnectFailedPc_Returns == "finally"

ConnectFailedPc == "loop"

\* Variant: the configured port is ignored.
TargetPort_AlwaysDefault(copy_cfg) == DefaultPort

\* copy_cfg.get("host_port") or 22
TargetPort(copy_cfg) ==
    IF PortFalsy(copy_cfg.host_port) THEN DefaultPort ELSE copy_cfg.host_port

\* The build_pfx_bytes call of lines 214-219 raises for this destination.
BuildFails(copy_cfg) ==
    /\ copy_cfg.convert_to_PFX
    /\ BuildRaises(ssl_files.privkey_bytes, ssl_files.cert_bytes)

InLoop == pc = "loop" /\ idx \in 1..NDests

\* The build_pfx_bytes call destination i makes: none unless convert_to_PFX.
PfxCall(i, copy_cfg) ==
    IF copy_cfg.convert_to_PFX
    THEN << [dest |-> i,
             password |-> OrElse(copy_cfg.ssl_password, <<>>),
             friendly_name |-> PfxSslName(copy_cfg)] >>
    ELSE <<>>

\* Lines 179-188: connect to the source; on failure report and return.
ConnectSource ==
    /\ pc = "start"
    /\ \E io \in ConnectIO :
         LET c == connect_sftp(sessions, 0, SrcHost, DefaultPort,
                               <<"u">>, <<"w">>, io)
         IN  /\ sessions' = c.sess
             /\ sftp' = c.handle
             /\ connects' = Append(connects,
                    ConnectCall(0, SrcHost, DefaultPort, <<"u">>, <<"w">>, io))
             /\ IF c.handle = 0
                THEN /\ pc' = "done"
                     /\ reports' = reports \cup
                            {[what |-> "source_connect_failed", dest |-> 0]}
                ELSE /\ pc' = "fetch"
                     /\ UNCHANGED reports
    /\ UNCHANGED <<config, src_items, idx, target_sftp, ssl_files, exc,
                   outcome, wlog, local_files, remote_dirs, remote_files,
                   src_reads, src_lists, stale_use, pfx_calls, call, ret>>

\* Lines 190-193: fetch the material over the source session.
FetchSslFiles ==
    /\ pc = "fetch"
    /\ \E io \in FetchIO :
         LET r == fetch_ssl_files(src_items, config.ssl_privkey_name,
                                  config.ssl_cert_name, io)
         IN  /\ ssl_files' = r.ret
             /\ src_lists' = src_lists + r.lists
             /\ src_reads' = src_reads \o r.reads
             /\ reports' = IF r.report = "none" THEN reports
                           ELSE reports \cup {[what |-> r.report, dest |-> 0]}
             /\ exc' = r.raised
             /\ pc' = IF r.raised # "none" THEN "finally"
                      ELSE IF ~r.ret.ok THEN FetchFailedPc
                      ELSE "loop"
    /\ stale_use' = stale_use \cup StaleUse(sessions, sftp)
    /\ UNCHANGED <<config, src_items, idx, sessions, sftp, target_sftp,
                   outcome, wlog, local_files, remote_dirs, remote_files,
                   pfx_calls, connects, call, ret>>

\* Lines 206-219: build_pfx_bytes raises; nothing in the loop catches it.
BuildFailure ==
    /\ InLoop
    /\ BuildFails(config.copy[idx])
    /\ exc' = "BuildFailure"
    /\ outcome' = [outcome EXCEPT ![idx] = "build_failed"]
    /\ pc' = "finally"
    /\ pfx_calls' = pfx_calls \o PfxCall(idx, config.copy[idx])
    /\ UNCHANGED <<config, src_items, idx, sessions, sftp, target_sftp,
                   ssl_files, wlog, local_files, remote_dirs, remote_files,
                   reports, src_reads, src_lists, stale_use, connects, call, ret>>

\* Lines 221-223 and 251-255: a local destination.
WriteLocal ==
    /\ InLoop
    /\ LET copy_cfg == config.copy[idx]
           payload  == Payload(copy_cfg, ssl_files)
       IN  /\ ~BuildFails(copy_cfg)
           /\ is_local_target(copy_cfg)
           /\ pfx_calls' = pfx_calls \o PfxCall(idx, copy_cfg)
           /\ \E failIdx \in 0..Len(payload) :
                LET w == WriteAllLocal(local_files, TargetPath(copy_cfg),
                                       payload, 1, failIdx, <<>>)
                IN  /\ local_files' = w.files
                    /\ wlog' = wlog \o LogEntries(idx, 0, TargetPath(copy_cfg),
                                                  w.written)
                    /\ IF w.raised
                       THEN /\ exc' = "WriteFailure"
                            /\ outcome' = [outcome EXCEPT ![idx] = "write_failed"]
                            /\ pc' = "finally"
                            /\ idx' = idx
                       ELSE /\ exc' = exc
                            /\ outcome' = [outcome EXCEPT ![idx] = "ok"]
                            /\ pc' = "loop"
                            /\ idx' = idx + 1
    /\ UNCHANGED <<config, src_items, sessions, sftp, target_sftp, ssl_files,
                   remote_dirs, remote_files, reports, src_reads, src_lists,
                   stale_use, connects, call, ret>>

\* Variant: a destination whose connect failed is tried again.
ConnectTarget_Retries ==
    /\ InLoop
    /\ LET copy_cfg == config.copy[idx]
       IN  /\ ~BuildFails(copy_cfg)
           /\ ~is_local_target(copy_cfg)
           /\ pfx_calls' = pfx_calls \o PfxCall(idx, copy_cfg)
           /\ \E io \in ConnectIO :
                LET c == connect_sftp(sessions, idx, copy_cfg.host_address,
                                      TargetPort(copy_cfg),
                                      copy_cfg.host_username,
                                      copy_cfg.host_password, io)
                IN  /\ sessions' = c.sess
                    /\ target_sftp' = c.handle
                    /\ connects' = Append(connects,
                           ConnectCall(idx, copy_cfg.host_address,
                                       TargetPort(copy_cfg),
                                       copy_cfg.host_username,
                                       copy_cfg.host_password, io))
                    /\ IF c.handle = 0
                       THEN /\ reports' = reports \cup
                                 {[what |-> "target_connect_failed", dest |-> idx]}
                            /\ outcome' = [outcome EXCEPT ![idx] = "connect_failed"]
                            /\ pc' = "loop"
                            /\ idx' = idx
                       ELSE /\ outcome' = [outcome EXCEPT ![idx] = "connected"]
                            /\ pc' = "write_target"
                            /\ UNCHANGED <<reports, idx>>
    /\ UNCHANGED <<config, src_items, sftp, ssl_files, exc, wlog, local_files,
                   remote_dirs, remote_files, src_reads, src_lists, stale_use,
                   call, ret>>

\* Lines 225-238 and 257-270: a remote destination, up to the connect.
ConnectTarget ==
    /\ InLoop
    /\ LET copy_cfg == config.copy[idx]
       IN  /\ ~BuildFails(copy_cfg)
           /\ ~is_local_target(copy_cfg)
           /\ pfx_calls' = pfx_calls \o PfxCall(idx, copy_cfg)
           /\ \E io \in ConnectIO :
                LET c == connect_sftp(sessions, idx, copy_cfg.host_address,
                                      TargetPort(copy_cfg),
                                      copy_cfg.host_username,
                                      copy_cfg.host_password, io)
                IN  /\ sessions' = c.sess
                    /\ target_sftp' = c.handle
                    /\ connects' = Append(connects,
                           ConnectCall(idx, copy_cfg.host_address,
                                       TargetPort(copy_cfg),
                                       copy_cfg.host_username,
                                       copy_cfg.host_password, io))
                    /\ IF c.handle = 0
                       THEN /\ reports' = reports \cup
                                 {[what |-> "target_connect_failed", dest |-> idx]}
                            /\ outcome' = [outcome EXCEPT ![idx] = "connect_failed"]
                            /\ pc' = ConnectFailedPc
                            /\ idx' = idx + 1
                       ELSE /\ outcome' = [outcome EXCEPT ![idx] = "connected"]
                            /\ pc' = "write_target"
                            /\ UNCHANGED <<reports, idx>>
    /\ UNCHANGED <<config, src_items, sftp, ssl_files, exc, wlog, local_files,
                   remote_dirs, remote_files, src_reads, src_lists, stale_use,
                   call, ret>>

\* Lines 240-241 and 272-275: the body of the try block.
WriteTarget ==
    /\ pc = "write_target"
    /\ LET copy_cfg == config.copy[idx]
           payload  == Payload(copy_cfg, ssl_files)
           host     == sessions[target_sftp].host
           path     == TargetPath(copy_cfg)
       IN  \E failAt \in 0..Len(Parts(path)), failIdx \in 0..Len(payload) :
             LET w == WriteAllRemote(remote_dirs[host], remote_files[host],
                                     path, payload, 1, failAt, failIdx, <<>>)
             IN  /\ remote_dirs' = [remote_dirs EXCEPT ![host] = w.dirs]
                 /\ remote_files' = [remote_files EXCEPT ![host] = w.files]
                 /\ wlog' = wlog \o LogEntries(idx, target_sftp, path, w.written)
                 /\ exc' = IF w.raised THEN "WriteFailure" ELSE exc
    /\ stale_use' = stale_use \cup StaleUse(sessions, target_sftp)
    /\ pc' = "target_finally"
    /\ UNCHANGED <<config, src_items, idx, sessions, sftp, target_sftp,
                   ssl_files, outcome, local_files, reports, src_reads,
                   src_lists, pfx_calls, connects, call, ret>>

\* Variant: the destination session is closed after the writes, without a
\* finally clause, so not when a write raised.
TargetFinally_NoFinally ==
    /\ pc = "target_finally"
    /\ sessions' = IF exc = "none" THEN CloseSession(sessions, target_sftp)
                   ELSE sessions
    /\ target_sftp' = 0
    /\ IF exc # "none"
       THEN /\ outcome' = [outcome EXCEPT ![idx] = "write_failed"]
            /\ pc' = "finally"
            /\ idx' = idx
       ELSE /\ outcome' = [outcome EXCEPT ![idx] = "ok"]
            /\ pc' = "loop"
            /\ idx' = idx + 1
    /\ UNCHANGED <<config, src_items, sftp, ssl_files, exc, wlog, local_files,
                   remote_dirs, remote_files, reports, src_reads, src_lists,
                   stale_use, pfx_calls, connects, call, ret>>

\* Lines 242-244 and 276-278: the finally clause of the destination.
TargetFinally ==
    /\ pc = "target_finally"
    /\ sessions' = CloseSession(sessions, target_sftp)
    /\ target_sftp' = 0
    /\ IF exc # "none"
       THEN /\ outcome' = [outcome EXCEPT ![idx] = "write_failed"]
            /\ pc' = "finally"
            /\ idx' = idx
       ELSE /\ outcome' = [outcome EXCEPT ![idx] = "ok"]
            /\ pc' = "loop"
            /\ idx' = idx + 1
    /\ UNCHANGED <<config, src_items, sftp, ssl_files, exc, wlog, local_files,
                   remote_dirs, remote_files, reports, src_reads, src_lists,
                   stale_use, pfx_calls, connects, call, ret>>

\* The for loop is exhausted.
LoopExit ==
    /\ pc = "loop"
    /\ idx > NDests
    /\ pc' = "finally"
    /\ UNCHANGED <<config, src_items, idx, sessions, sftp, target_sftp,
                   ssl_files, exc, outcome, wlog, local_files, remote_dirs,
                   remote_files, reports, src_reads, src_lists, stale_use,
                   pfx_calls, connects, call, ret>>

\* Variant: the source session is closed at the end of the try body, without
\* a finally clause, so not when an exception is propagating.
Finally_NoFinally ==
    /\ pc = "finally"
    /\ sessions' = IF sftp # 0 /\ exc = "none"
                   THEN CloseSession(sessions, sftp) ELSE sessions
    /\ pc' = "done"
    /\ UNCHANGED <<config, src_items, idx, sftp, target_sftp, ssl_files, exc,
                   outcome, wlog, local_files, remote_dirs, remote_files,
                   reports, src_reads, src_lists, stale_use, pfx_calls, connects, call,
                   ret>>

\* Lines 280-286: the finally clause of main.
Finally ==
    /\ pc = "finally"
    /\ sessions' = IF sftp # 0 THEN CloseSession(sessions, sftp) ELSE sessions
    /\ pc' = "done"
    /\ UNCHANGED <<config, src_items, idx, sftp, target_sftp, ssl_files, exc,
                   outcome, wlog, local_files, remote_dirs, remote_files,
                   reports, src_reads, src_lists, stale_use, pfx_calls, connects, call, ret>>

Next ==
    \/ ConnectSource
    \/ FetchSslFiles
    \/ BuildFailure
    \/ WriteLocal
    \/ ConnectTarget
    \/ WriteTarget
    \/ TargetFinally
    \/ LoopExit
    \/ Finally

Spec == Init /\ [][Next]_vars

\* Every blocking call of the run returns or raises, so the one thread of
\* main() takes its next step until main() has returned.  This is weak
\* fairness of Next with its enabling condition written out: a step of Next
\* is possible exactly while pc # "done".
SpecFair == Spec /\ ([]<>(pc = "done") \/ []<><<Next>>_vars)

(***************************************************************************)
(* Function runs: one call of a helper on inputs drawn from bounded sets   *)
(***************************************************************************)
Pending == [done |-> FALSE]

\* main() is not running.
Idle ==
    RunStart([ssl_privkey_name |-> <<"k">>, ssl_cert_name |-> F_cpem,
              copy |-> <<>>],
             [f \in SrcPool |-> "absent"])

\* Names a directory listing may hold (a file name is never empty).
FilePool ==
    { <<"k">>, F_kpem, <<"k", ".", "P", "E", "M">>, <<"K", ".", "p", "e", "m">>,
      DotPem, <<"k", ".", "p", "e">>,
      <<"k", ".", "p", "e", "m", ".", "p", "e", "m">> }

\* Desired names explored.
DesiredNames ==
    { <<>>, <<"k">>, <<"K">>, F_kpem, <<"k", ".", "P", "E", "M">>,
      <<"k", ".", "P", "e", "m">>, DotPem, <<".", "P", "E", "M">>,
      <<"p", "e", "m">>, <<"k", ".", "p", "e">>,
      <<"k", ".", "p", "e", "m", ".", "p", "e", "m">> }

InitResolve ==
    /\ Idle
    /\ \E A \in SUBSET FilePool, d \in DesiredNames :
         call = [fn |-> "resolve_remote_filename",
                 available_files |-> A, target_name |-> d]
    /\ ret = Pending

CallResolve ==
    /\ call.fn = "resolve_remote_filename"
    /\ ~ret.done
    /\ ret' = [done |-> TRUE,
               value |-> resolve_remote_filename(call.available_files,
                                                 call.target_name)]
    /\ UNCHANGED <<runVars, call>>

NextResolve == CallResolve

SpecResolve == InitResolve /\ [][NextResolve]_vars

\* host_address values explored.
HostValues ==
    { None, <<>>, ExampleCom,
      <<"E","x","a","m","p","l","e",".","C","O","M">>,
      <<" ","e","x","a","m","p","l","e",".","c","o","m">>,
      <<"e","x","a","m","p","l","e",".","c","o","m","\t">>,
      <<" ","E","X","A","M","P","L","E",".","c","o","m"," ">>,
      <<" ", " ">>, <<"\n">>,
      H1, <<" ", "h", "1">>,
      <<"e","x","a","m","p","l","e",".","o","r","g">>,
      <<"e","x","a","m","p","l","e"," ",".","c","o","m">>,
      <<"x","e","x","a","m","p","l","e",".","c","o","m">> }

\* host_port values explored.
PortValues == {NoPort, 0, 1, 22, 2222}

InitLocal ==
    /\ Idle
    /\ \E h \in HostValues, p \in PortValues :
         call = [fn |-> "is_local_target",
                 copy_cfg |-> Dest(<<"m">>, h, p, P_out, FALSE, None)]
    /\ ret = Pending

CallLocal ==
    /\ call.fn = "is_local_target"
    /\ ~ret.done
    /\ ret' = [done |-> TRUE, value |-> is_local_target(call.copy_cfg)]
    /\ UNCHANGED <<runVars, call>>

NextLocal == CallLocal

SpecLocal == InitLocal /\ [][NextLocal]_vars

(***************************************************************************)
(* Properties of resolve_remote_filename (checked under SpecResolve)       *)
(***************************************************************************)
\* The candidate list as the specification words it.
HasPemSuffix(d) ==
    Len(d) >= 4 /\ Lower(SubSeq(d, Len(d) - 3, Len(d))) = DotPem

SecondCandidate(d) ==
    IF HasPemSuffix(d) THEN SubSeq(d, 1, Len(d) - 4) ELSE d \o DotPem

FirstCandidateIn(A, d) ==
    IF d \in A THEN d
    ELSE IF SecondCandidate(d) \in A THEN SecondCandidate(d)
    ELSE None

ResolveReturned ==
    call.fn = "resolve_remote_filename" /\ ret.done

\* C7 as stated: for every desired name d, the empty string included, and
\* every set A, the resolver returns the first of [d, d without its .pem
\* suffix or d + ".pem"] that is in A, and NotFound exactly when neither is.
C7_FirstCandidateForEveryName ==
    ResolveReturned =>
        ret.value = FirstCandidateIn(call.available_files, call.target_name)

\* C7 amended: the same for every non-empty desired name; for the empty
\* desired name the resolver reports NotFound whatever A holds.
C7_FirstCandidateForNonEmptyName ==
    ResolveReturned =>
        ret.value = IF call.target_name = <<>> THEN None
                    ELSE FirstCandidateIn(call.available_files,
                                          call.target_name)

\* An upper-case .PEM suffix was stripped to find the file.
C7_Witness ==
    /\ ResolveReturned
    /\ call.target_name = <<"k", ".", "P", "E", "M">>
    /\ call.target_name \notin call.available_files
    /\ ret.value = <<"k">>

(***************************************************************************)
(* Properties of is_local_target (checked under SpecLocal)                 *)
(***************************************************************************)
LocalReturned == call.fn = "is_local_target" /\ ret.done

HostAbsentOrEmpty(h) == h = None \/ h = <<>>

\* C9 as stated: local iff host_address is empty or absent, or equals
\* example.com in any letter case, or host_port is falsy or absent; a host
\* that differs from these only by surrounding whitespace is not local.
C9_LocalIffExactHost ==
    LocalReturned =>
        LET h == call.copy_cfg.host_address
            p == call.copy_cfg.host_port
        IN  ret.value = ( \/ HostAbsentOrEmpty(h)
                          \/ Lower(h) = ExampleCom
                          \/ p = NoPort \/ p = 0 )

OnlyWhitespace(h) == \A i \in 1..Len(h) : h[i] \in Whitespace

\* h is example.com, in any letter case, between runs of whitespace.
PaddedExampleCom(h) ==
    \E i \in 1..Len(h), j \in 1..Len(h) :
        /\ i <= j
        /\ Lower(SubSeq(h, i, j)) = ExampleCom
        /\ \A k \in 1..Len(h) : (k < i \/ k > j) => h[k] \in Whitespace

\* C9 amended: local iff host_address is absent, or is empty or example.com
\* (any letter case) once surrounding whitespace is removed, or host_port is
\* falsy or absent.
C9_LocalIffStrippedHost ==
    LocalReturned =>
        LET h == call.copy_cfg.host_address
            p == call.copy_cfg.host_port
        IN  ret.value = ( \/ h = None
                          \/ OnlyWhitespace(h)
                          \/ PaddedExampleCom(h)
                          \/ p = NoPort \/ p = 0 )

\* A padded, mixed-case example.com with a port set was judged local.
C9_Witness ==
    /\ LocalReturned
    /\ call.copy_cfg.host_address =
           <<" ","E","X","A","M","P","L","E",".","c","o","m"," ">>
    /\ call.copy_cfg.host_port = 22
    /\ ret.value = TRUE

(***************************************************************************)
(* Properties of a run of main() (checked under Spec)                      *)
(***************************************************************************)
Done == pc = "done"

Dests == 1..NDests

\* The log entries of destination i, and the names they carry.
DestWrites(i) == {wlog[k] : k \in {n \in 1..Len(wlog) : wlog[n].dest = i}}

DestNames(i) == {e.name : e \in DestWrites(i)}

Attempted(i) == outcome[i] # "pending"

Reported(what, i) == [what |-> what, dest |-> i] \in reports

\* C1: a build_pfx_bytes failure at one convert_to_PFX destination is
\* confined to it: the run is not terminated by it and every later
\* destination of the list is still attempted.
C1_BuildFailureConfined ==
    \A i \in Dests :
        (Done /\ outcome[i] = "build_failed") =>
            /\ exc = "none"
            /\ \A j \in (i + 1)..NDests : Attempted(j)

\* C2: a write failure at one destination (local disk or open destination
\* session) is recovered at the loop: the run is not terminated by it and
\* every remaining destination is still attempted.
C2_WriteFailureConfined ==
    \A i \in Dests :
        (Done /\ outcome[i] = "write_failed") =>
            /\ exc = "none"
            /\ \A j \in (i + 1)..NDests : Attempted(j)

\* The payload of destination j is in the log as written to the local disk.
WrittenLocally(j) ==
    LET payload == Payload(config.copy[j], ssl_files)
    IN  \A k \in 1..Len(payload) :
            [dest |-> j, chan |-> 0, dir |-> TargetPath(config.copy[j]),
             name |-> payload[k].name, data |-> payload[k].data]
                \in DestWrites(j)

C4_SourceClosedExactlyOnce ==
    sftp # 0 =>
        /\ sftp \notin stale_use
        /\ IF Done
           THEN /\ sessions[sftp].sftp = "closed"
                /\ sessions[sftp].ssh = "closed"
                /\ sessions[sftp].sftp_closes = 1
                /\ sessions[sftp].ssh_closes = 1
           ELSE /\ sessions[sftp].sftp = "open"
                /\ sessions[sftp].ssh = "open"
                /\ sessions[sftp].sftp_closes = 0
                /\ sessions[sftp].ssh_closes = 0

\* The run ended by an exception of a destination, with the source closed.
C4_Witness ==
    /\ Done
    /\ sftp # 0
    /\ exc \in {"BuildFailure", "WriteFailure"}
    /\ sessions[sftp].sftp_closes = 1

\* The pairs connect_sftp returned for a destination.
TargetSessions ==
    {h \in 1..Len(sessions) :
        sessions[h].owner >= 1 /\ sessions[h].sftp # "none"}

\* C5: a destination session that was opened is closed exactly once before
\* the next destination is processed or the run ends, whether its writes
\* succeeded or failed; after a connect failure the destination has none.
C5_TargetClosedExactlyOnce ==
    /\ \A h \in TargetSessions :
         IF h = target_sftp
         THEN /\ pc \in {"write_target", "target_finally"}
              /\ idx = sessions[h].owner
              /\ sessions[h].sftp = "open" /\ sessions[h].ssh = "open"
              /\ sessions[h].sftp_closes = 0 /\ sessions[h].ssh_closes = 0
         ELSE /\ sessions[h].sftp = "closed" /\ sessions[h].ssh = "closed"
              /\ sessions[h].sftp_closes = 1 /\ sessions[h].ssh_closes = 1
    /\ pc \in {"loop", "finally", "done"} => target_sftp = 0
    /\ \A i \in Dests :
         outcome[i] = "connect_failed" =>
            \A h \in TargetSessions : sessions[h].owner # i

\* A destination session was closed after its write had failed.
C5_Witness ==
    \E h \in TargetSessions :
        /\ outcome[sessions[h].owner] = "write_failed"
        /\ sessions[h].sftp_closes = 1
        /\ sessions[h].ssh_closes = 1

\* The source connect failed, or the fetch reported a name it cannot resolve.
SourceFailed ==
    \/ Done /\ sftp = 0
    \/ Reported("privkey_not_found", 0)
    \/ Reported("cert_not_found", 0)

\* C6: after a source connection failure or an unresolved key or
\* certificate name no destination is processed: no PFX is built, no
\* destination session is opened, nothing is written locally or remotely.
C6_SourceFailureIsFatal ==
    SourceFailed =>
        /\ \A i \in Dests : ~Attempted(i)
        /\ pfx_calls = <<>>
        /\ \A h \in 1..Len(sessions) : sessions[h].owner = 0
        /\ target_sftp = 0
        /\ wlog = <<>>
        /\ local_files = {}
        /\ \A h \in Hosts : remote_files[h] = {} /\ remote_dirs[h] = InitialDirs

\* A run with destinations ended after the certificate was not found.
C6_Witness ==
    /\ Done
    /\ NDests >= 1
    /\ Reported("cert_not_found", 0)

Resolves(name) ==
    Truthy(resolve_remote_filename(AvailableFiles(src_items), name))

Fetched == sftp # 0 /\ pc \notin {"start", "fetch"} /\ src_lists = 1

\* C8: the fetch has no partial success.  If a name does not resolve, no
\* material is returned, no file is read and exactly one not-found report is
\* made, naming the private key when it is missing and the certificate
\* otherwise; material is returned only with both names resolved and both
\* files read, key first, and it holds the names and the bytes read.
C8_FetchAllOrNothing ==
    Fetched =>
        LET A  == AvailableFiles(src_items)
            pk == resolve_remote_filename(A, config.ssl_privkey_name)
            cn == resolve_remote_filename(A, config.ssl_cert_name)
            missing == ~Resolves(config.ssl_privkey_name)
                         \/ ~Resolves(config.ssl_cert_name)
        IN  /\ (missing /\ exc # "ListFailure") =>
                 /\ ~ssl_files.ok
                 /\ src_reads = <<>>
                 /\ Reported("privkey_not_found", 0)
                      <=> ~Resolves(config.ssl_privkey_name)
                 /\ Reported("cert_not_found", 0)
                      <=> Resolves(config.ssl_privkey_name)
            /\ ssl_files.ok =>
                 /\ ~missing
                 /\ src_reads = <<pk, cn>>
                 /\ ssl_files = [ok |-> TRUE,
                                 privkey_name |-> pk, cert_name |-> cn,
                                 privkey_bytes |-> Content(pk),
                                 cert_bytes |-> Content(cn)]
            /\ ~ssl_files.ok =>
                 /\ ssl_files = NoFiles
                 /\ missing \/ exc \in {"ListFailure", "ReadFailure"}

\* The key resolved, the certificate did not, and nothing was read.
C8_Witness ==
    /\ Fetched
    /\ Resolves(config.ssl_privkey_name)
    /\ ~Resolves(config.ssl_cert_name)
    /\ Reported("cert_not_found", 0)
    /\ src_reads = <<>>

\* Destination i is a PEM destination whose processing ended without error.
PemDone(i) == ~config.copy[i].convert_to_PFX /\ outcome[i] = "ok"

\* Where a logged write landed: the host (empty for the local disk) and the
\* path on it.
Location(e) ==
    IF e.chan = 0
    THEN [host |-> <<>>, path |-> <<e.dir, e.name>>]
    ELSE [host |-> sessions[e.chan].host,
          path |-> Canon(PosixJoin(RStripSlash(e.dir), e.name))]

\* The disk written to holds the logged bytes at the logged place.
Held(e) ==
    IF e.chan = 0
    THEN [dir |-> e.dir, name |-> e.name, data |-> e.data] \in local_files
    ELSE [path |-> Location(e).path, data |-> e.data]
            \in remote_files[sessions[e.chan].host]

\* Every file written for i carries a resolved name, the bytes stored on the
\* source under that name, and the destination's path; both names are there;
\* and each file is on the destination's disk with those bytes unless a later
\* write replaced it.
PemFilesFaithful(i) ==
    /\ DestNames(i) = {ssl_files.privkey_name, ssl_files.cert_name}
    /\ \A e \in DestWrites(i) :
         /\ e.data = Content(e.name)
         /\ e.dir = TargetPath(config.copy[i])
    /\ \A k \in 1..Len(wlog) :
         ( /\ wlog[k].dest = i
           /\ \A n \in (k + 1)..Len(wlog) :
                Location(wlog[n]) # Location(wlog[k]) )
         => Held(wlog[k])

\* C10 as stated: a PEM destination processed without error receives exactly
\* two files, named by the resolved names, with the bytes fetched, and no
\* other file, for every pair of configured names, also those that resolve
\* to the same remote filename.
C10_ExactlyTwoPemFiles ==
    \A i \in Dests :
        PemDone(i) => (Cardinality(DestNames(i)) = 2 /\ PemFilesFaithful(i))

\* C10 amended: it receives exactly the files named by the two resolved
\* names with the bytes fetched, and no other: two files when the resolved
\* names differ, a single file when both names resolve to the same file.
C10_PemFilesByResolvedName ==
    \A i \in Dests :
        PemDone(i) =>
            /\ PemFilesFaithful(i)
            /\ Cardinality(DestNames(i)) =
                 IF ssl_files.privkey_name = ssl_files.cert_name THEN 1 ELSE 2

\* A remote PEM destination received two differently named files.
C10_Witness ==
    \E i \in Dests :
        /\ PemDone(i)
        /\ ~is_local_target(config.copy[i])
        /\ ssl_files.privkey_name # ssl_files.cert_name
        /\ Cardinality(DestNames(i)) = 2

(***************************************************************************)
(* PFX destinations (checked under Spec)                                   *)
(***************************************************************************)
\* Destination i is a PFX destination whose processing ended without error.
PfxDone(i) == config.copy[i].convert_to_PFX /\ outcome[i] = "ok"

\* The configured ssl_name as a string (empty when absent).
LogicalName(copy_cfg) ==
    IF copy_cfg.ssl_name = None THEN <<>> ELSE copy_cfg.ssl_name

HasPfxSuffix(n) ==
    Len(n) >= 4 /\ Lower(SubSeq(n, Len(n) - 3, Len(n))) = DotPfx

WithPfxSuffix(n) == IF HasPfxSuffix(n) THEN n ELSE n \o DotPfx

\* Exactly one file, a PKCS12 blob, was written for i, into its path and
\* under the given name, and the destination's disk holds it unless a later
\* write replaced it.
OnePfxFile(i, name) ==
    /\ Cardinality(DestWrites(i)) = 1
    /\ \A e \in DestWrites(i) :
         /\ e.name = name
         /\ e.data.kind = "pfx"
         /\ e.dir = TargetPath(config.copy[i])
    /\ \A k \in 1..Len(wlog) :
         ( /\ wlog[k].dest = i
           /\ \A n \in (k + 1)..Len(wlog) :
                Location(wlog[n]) # Location(wlog[k]) )
         => Held(wlog[k])

\* C11 as stated: a PFX destination processed without error receives exactly
\* one file and no PEM file; the file is named by the logical SSL name when
\* that ends with .pfx in any letter case, else by the name followed by .pfx.
C11_OnePfxFileNamedBySslName ==
    \A i \in Dests :
        PfxDone(i) => OnePfxFile(i, WithPfxSuffix(LogicalName(config.copy[i])))

\* C11 amended: the same, where an empty or absent logical SSL name is
\* replaced by the name certificate before the file name is formed.
C11_OnePfxFileNamedBySslNameOrDefault ==
    \A i \in Dests :
        PfxDone(i) =>
            LET n == LogicalName(config.copy[i])
            IN  OnePfxFile(i, WithPfxSuffix(IF n = <<>> THEN Certificate ELSE n))

\* A destination named m.PFX received the single file m.PFX.
C11_Witness ==
    \E i \in Dests :
        /\ PfxDone(i)
        /\ config.copy[i].ssl_name = <<"m", ".", "P", "F", "X">>
        /\ DestNames(i) = {<<"m", ".", "P", "F", "X">>}

(***************************************************************************)
(* ensure_remote_dir called twice on one host (SpecEnsure)                 *)
(***************************************************************************)
D_a   == << <<"a">> >>
D_ab  == << <<"a">>, <<"b">> >>
D_abc == << <<"a">>, <<"b">>, <<"c">> >>
D_x   == << <<"x">> >>

\* Directory trees a host may hold before the call.
TreePool ==
    {InitialDirs \cup below \cup other :
        below \in {{}, {D_a}, {D_a, D_ab}, {D_a, D_ab, D_abc}},
        other \in {{}, {D_x}}}

\* remote_dir values explored.
PathPool ==
    { <<"/", "a", "/", "b", "/", "c">>, <<"/", "a">>, <<"/", "a", "/", "b", "/">>,
      <<"a", "/", "b">>, <<"/", "a", "/", "/", "b">>,
      <<"/", "a", "/", ".", "/", "b">>, Dot, <<"/">>, <<>> }

InitEnsure ==
    /\ Idle
    /\ \E t \in TreePool, p \in PathPool :
         \E f \in 0..Len(Parts(p)) :
            call = [fn |-> "ensure_remote_dir", dirs |-> t, remote_dir |-> p,
                    failAt |-> f]
    /\ ret = [done |-> FALSE, stage |-> 0]

\* The first call.
CallEnsure ==
    /\ call.fn = "ensure_remote_dir"
    /\ ret.stage = 0
    /\ ret' = [done |-> FALSE, stage |-> 1,
               first |-> ensure_remote_dir(call.dirs, call.remote_dir,
                                           call.failAt)]
    /\ UNCHANGED <<runVars, call>>

\* The second call, on the directories the first one left, made when the
\* first returned; any sftp.mkdir it issues may raise.
CallEnsureAgain ==
    /\ call.fn = "ensure_remote_dir"
    /\ ret.stage = 1
    /\ ~ret.first.raised
    /\ \E f \in 0..Len(Parts(call.remote_dir)) :
         ret' = [done |-> TRUE, stage |-> 2, first |-> ret.first,
                 second |-> ensure_remote_dir(ret.first.dirs,
                                              call.remote_dir, f)]
    /\ UNCHANGED <<runVars, call>>

NextEnsure == CallEnsure \/ CallEnsureAgain

SpecEnsure == InitEnsure /\ [][NextEnsure]_vars

\* The components of a path, empty and "." pieces left out.
Components(path) == SelectSeq(Parts(path), LAMBDA c : c # Dot)

\* The directories named by the prefixes of a path, read from the root.
PrefixDirs(path) ==
    {SubSeq(Components(path), 1, k) : k \in 1..Len(Components(path))}

SeqRange(q) == {q[k] : k \in 1..Len(q)}

\* C12: ensure_remote_dir probes the prefixes of the path from the root
\* downward and creates exactly those that do not exist, none that exists;
\* unless an sftp.mkdir fails it succeeds; a second call then succeeds,
\* creates nothing and leaves the directories as the first call left them.
C12_EnsureIdempotent ==
    (call.fn = "ensure_remote_dir" /\ ret.stage >= 1) =>
        LET r1 == ret.first
            missing == PrefixDirs(call.remote_dir) \ call.dirs
        IN  /\ \A k \in 1..Len(r1.probes) :
                 /\ Canon(r1.probes[k]) \in PrefixDirs(call.remote_dir) \cup {<<>>}
                 /\ k > 1 => Len(r1.probes[k - 1]) < Len(r1.probes[k])
            /\ \A k \in 1..Len(r1.mkdirs) :
                 /\ Canon(r1.mkdirs[k]) \in missing
                 /\ \A j \in 1..(k - 1) :
                      Canon(r1.mkdirs[j]) # Canon(r1.mkdirs[k])
            /\ call.failAt = 0 => ~r1.raised
            /\ ~r1.raised =>
                 /\ Len(r1.probes) = Len(Parts(call.remote_dir))
                 /\ {Canon(m) : m \in SeqRange(r1.mkdirs)} = missing
                 /\ r1.dirs = call.dirs \cup PrefixDirs(call.remote_dir)
            /\ ret.stage = 2 =>
                 /\ ~ret.second.raised
                 /\ ret.second.mkdirs = <<>>
                 /\ ret.second.dirs = r1.dirs

\* /a/b/c was ensured twice on a host that had only /a: the first call
\* created /a/b and /a/b/c, the second nothing.
C12_Witness ==
    /\ call.fn = "ensure_remote_dir"
    /\ ret.stage = 2
    /\ call.remote_dir = <<"/", "a", "/", "b", "/", "c">>
    /\ D_a \in call.dirs /\ D_ab \notin call.dirs
    /\ Len(ret.first.mkdirs) = 2
    /\ ret.second.mkdirs = <<>>

(***************************************************************************)
(* The fetched material (checked under Spec)                               *)
(***************************************************************************)
\* A logged write carries what the fetch returned: a PEM file one of the two
\* resolved names with its bytes, a PFX blob both byte buffers.
FromMaterial(e) ==
    IF e.data.kind = "pfx"
    THEN e.data.key = ssl_files.privkey_bytes /\ e.data.cert = ssl_files.cert_bytes
    ELSE \/ e.name = ssl_files.privkey_name /\ e.data = ssl_files.privkey_bytes
         \/ e.name = ssl_files.cert_name /\ e.data = ssl_files.cert_bytes

\* One listing and one read of each file, on the open source session, gave
\* the material; every write so far carries it.
FetchedOnce ==
    /\ src_lists <= 1
    /\ Len(src_reads) <= 2
    /\ sftp \notin stale_use
    /\ ssl_files.ok =>
         /\ src_lists = 1
         /\ src_reads = <<ssl_files.privkey_name, ssl_files.cert_name>>
         /\ ssl_files.privkey_bytes = Content(ssl_files.privkey_name)
         /\ ssl_files.cert_bytes = Content(ssl_files.cert_name)
    /\ \A k \in 1..Len(wlog) : ssl_files.ok /\ FromMaterial(wlog[k])

\* After the fetch nothing lists or reads the source or changes the material.
MaterialFrozen ==
    pc \notin {"start", "fetch"} =>
        /\ ssl_files' = ssl_files
        /\ src_lists' = src_lists
        /\ src_reads' = src_reads

\* C13: the material is fetched exactly once per run, one listing and one
\* read of each file on the source session, is never modified afterwards,
\* and every destination is given the bytes and names the fetch returned.
C13_FetchedOnceAndShared == []FetchedOnce /\ [][MaterialFrozen]_vars

\* Two destinations, one PEM and one PFX, were both served from one fetch.
C13_Witness ==
    /\ Done
    /\ NDests = 2
    /\ outcome[1] = "ok" /\ outcome[2] = "ok"
    /\ config.copy[1].convert_to_PFX /\ ~config.copy[2].convert_to_PFX
    /\ src_lists = 1
    /\ Len(src_reads) = 2

(***************************************************************************)
(* The arguments of build_pfx_bytes (checked under Spec)                   *)
(***************************************************************************)
\* The configured ssl_password as a string (empty when absent).
ConfiguredPassword(copy_cfg) ==
    IF copy_cfg.ssl_password = None THEN <<>> ELSE copy_cfg.ssl_password

\* The build_pfx_bytes calls made for destination i.
PfxCallsOf(i) == SelectSeq(pfx_calls, LAMBDA c : c.dest = i)

\* A convert_to_PFX destination whose processing began made exactly one
\* build call, with the given friendly name and its configured password, and
\* a blob written for it embeds that name and is encrypted with that password.
BuiltWith(i, friendly) ==
    /\ Len(PfxCallsOf(i)) = 1
    /\ PfxCallsOf(i)[1].friendly_name = friendly
    /\ PfxCallsOf(i)[1].password = ConfiguredPassword(config.copy[i])
    /\ \A e \in DestWrites(i) :
         /\ e.data.name = IF friendly = <<>> THEN None ELSE friendly
         /\ e.data.password =
              IF ConfiguredPassword(config.copy[i]) = <<>> THEN None
              ELSE ConfiguredPassword(config.copy[i])

PfxBegun(i) ==
    config.copy[i].convert_to_PFX /\ outcome[i] # "pending"

\* C14 as stated: the friendly name passed to the build is the configured
\* ssl_name for every value of it, an empty or absent one included, and the
\* password is ssl_password, empty when none is configured.
C14_FriendlyNameIsSslName ==
    \A i \in Dests :
        PfxBegun(i) => BuiltWith(i, LogicalName(config.copy[i]))

\* C14 amended: the friendly name is the configured ssl_name when that is
\* not empty and the name certificate when it is empty or absent; the
\* password is ssl_password, empty when none is configured.
C14_FriendlyNameIsSslNameOrDefault ==
    \A i \in Dests :
        PfxBegun(i) =>
            LET n == LogicalName(config.copy[i])
            IN  BuiltWith(i, IF n = <<>> THEN Certificate ELSE n)

\* A destination without ssl_name was built under the name certificate, and
\* one with a password was written.
C14_Witness ==
    /\ \E i \in Dests :
         /\ PfxBegun(i)
         /\ config.copy[i].ssl_name = <<>>
         /\ PfxCallsOf(i)[1].friendly_name = Certificate
    /\ \E i \in Dests :
         /\ PfxDone(i)
         /\ config.copy[i].ssl_password = <<"s">>

(***************************************************************************)
(* Order of processing (checked under Spec)                                *)
(***************************************************************************)
\* Outcomes with which the processing of a destination has ended.
Ended == {"ok", "connect_failed", "build_failed", "write_failed"}

\* The number of connect_sftp calls made on behalf of owner.
ConnectAttempts(owner) ==
    Cardinality({k \in 1..Len(connects) : connects[k].owner = owner})

\* Destinations are begun in list order, each after its predecessors ended
\* by success or skip; at most the current one is in progress; the source is
\* connected once, first, and no destination more than once.
InOrder ==
    /\ \A i \in Dests :
         /\ Attempted(i) =>
              \A j \in 1..(i - 1) : outcome[j] \in {"ok", "connect_failed"}
         /\ outcome[i] \notin Ended \cup {"pending"} =>
              i = idx /\ pc \in {"write_target", "target_finally"}
         /\ ConnectAttempts(i) <= 1
    /\ ConnectAttempts(0) = IF pc = "start" THEN 0 ELSE 1
    /\ \A k \in 1..Len(connects) :
         \A j \in 1..(k - 1) : connects[j].owner < connects[k].owner

\* A step works on the current destination only, never on one that ended,
\* and moves on by one destination at most.
OneAtATime ==
    /\ idx' \in {idx, idx + 1}
    /\ \A i \in Dests :
         /\ outcome'[i] # outcome[i] => i = idx
         /\ outcome[i] \in Ended => outcome'[i] = outcome[i]

\* C15: destinations are processed strictly in configuration order, one
\* after another, each at most once, and no connect is retried: one source
\* connect attempt per run, at most one connect attempt per destination.
C15_SequentialNoRetry == []InOrder /\ [][OneAtATime]_vars

\* Both of two remote destinations were connected to, one attempt each, the
\* first attempt having failed.
C15_Witness ==
    /\ Done
    /\ NDests = 2
    /\ outcome[1] = "connect_failed"
    /\ ConnectAttempts(1) = 1
    /\ ConnectAttempts(2) = 1
    /\ outcome[2] = "ok"

(***************************************************************************)
(* The channel a destination is written through (checked under Spec)       *)
(***************************************************************************)
\* The transports connect_sftp brought up for owner.
SessionsOf(owner) == {h \in 1..Len(sessions) : sessions[h].owner = owner}

\* The connect_sftp calls made for owner.
ConnectsOf(owner) == {connects[k] : k \in {n \in 1..Len(connects) : connects[n].owner = owner}}

\* A local destination: no connect, no transport, writes on the local disk.
LocalChannel(i) ==
    /\ ConnectAttempts(i) = 0
    /\ SessionsOf(i) = {}
    /\ \A e \in DestWrites(i) : e.chan = 0

\* A remote destination: its one connect, made once its payload is built,
\* is to its own host, port and credentials; every write for it goes through
\* the session that connect returned, never the local disk; when it ended
\* well, that session carried every file of its payload.
RemoteChannel(i) ==
    LET copy_cfg == config.copy[i]
        payload  == Payload(copy_cfg, ssl_files)
    IN  /\ ConnectAttempts(i) =
             IF outcome[i] \in {"pending", "build_failed"} THEN 0 ELSE 1
        /\ \A c \in ConnectsOf(i) :
             /\ c.host = copy_cfg.host_address
             /\ c.port = copy_cfg.host_port
             /\ c.username = copy_cfg.host_username
             /\ c.password = copy_cfg.host_password
        /\ Cardinality(SessionsOf(i)) <= 1
        /\ \A h \in SessionsOf(i) :
             /\ h # sftp
             /\ sessions[h].host = copy_cfg.host_address
             /\ sessions[h].port = copy_cfg.host_port
        /\ \A e \in DestWrites(i) : e.chan \in SessionsOf(i)
        /\ outcome[i] = "ok" =>
             /\ Cardinality(SessionsOf(i)) = 1
             /\ DestNames(i) = {payload[k].name : k \in 1..Len(payload)}

\* Every file on a disk was put there by a write through the matching
\* channel of a destination of the matching kind.
DisksMatchLog ==
    /\ \A f \in local_files :
         \E k \in 1..Len(wlog) :
            /\ wlog[k].chan = 0
            /\ is_local_target(config.copy[wlog[k].dest])
            /\ wlog[k].dir = f.dir /\ wlog[k].name = f.name
    /\ \A host \in Hosts : \A f \in remote_files[host] :
         \E k \in 1..Len(wlog) :
            /\ wlog[k].chan # 0
            /\ ~is_local_target(config.copy[wlog[k].dest])
            /\ Location(wlog[k]) = [host |-> host, path |-> f.path]

\* C16: a local destination opens no connection and is written only to the
\* local disk; a remote destination is connected to once, at its own host,
\* port and credentials, and the session that connect returns, not the
\* source session nor another destination's, carries all of its files, none
\* of which goes to the local disk.
C16_ChannelMatchesLocality ==
    /\ \A i \in Dests :
         IF is_local_target(config.copy[i]) THEN LocalChannel(i)
                                            ELSE RemoteChannel(i)
    /\ DisksMatchLog

\* A remote PEM destination got both files through its own session and a
\* local destination after it was written to the local disk.
C16_Witness ==
    /\ Done
    /\ NDests = 2
    /\ ~is_local_target(config.copy[1]) /\ ~config.copy[1].convert_to_PFX
    /\ outcome[1] = "ok"
    /\ Cardinality(DestWrites(1)) = 2
    /\ is_local_target(config.copy[2])
    /\ outcome[2] = "ok"
    /\ local_files # {}

(***************************************************************************)
(* Termination (checked under SpecFair)                                    *)
(***************************************************************************)
\* The sessions connect_sftp handed to main(): transport and sub-channel.
Pairs == {h \in 1..Len(sessions) : sessions[h].sftp # "none"}

\* Neither half of the session with index h is open.
Released(h) == sessions[h].sftp = "closed" /\ sessions[h].ssh = "closed"

NoSessionOpen == \A h \in Pairs : Released(h)

\* C17: when every I/O call returns or raises, every run ends, whatever the
\* destination list and whichever calls fail, and once it has ended no
\* session, source or destination, is open.
C17_TerminatesWithNoSessionOpen == <>Done /\ [](Done => NoSessionOpen)

\* A run that ended on an exception raised while a destination session and
\* the source session were in use.
C17_Witness ==
    /\ Done
    /\ exc = "WriteFailure"
    /\ Cardinality(Pairs) = 2
    /\ \E h \in Pairs : sessions[h].owner = 0
    /\ \E h \in Pairs : sessions[h].owner >= 1
    /\ NoSessionOpen

(***************************************************************************)
(* What a failed connect_sftp leaves behind (checked under Spec)           *)
(***************************************************************************)
\* The transports of the connect_sftp calls that returned (None, None).
FailedAttempts == {h \in 1..Len(sessions) : sessions[h].sftp = "none"}

\* C18: when connect_sftp reports failure it leaves no live connection
\* behind; in particular a transport that connected and authenticated is
\* closed when opening the SFTP sub-channel on it fails.
C18_FailedConnectLeavesNothingOpen ==
    \A h \in FailedAttempts : sessions[h].ssh # "open"

(***************************************************************************)
(* Sessions open at the same time (checked under Spec)                     *)
(***************************************************************************)
\* The sessions handed to main() of which a half is still open.
OpenPairs == {h \in Pairs : ~Released(h)}

SourceOpen == \E h \in OpenPairs : sessions[h].owner = 0

TargetOpen == \E h \in OpenPairs : sessions[h].owner >= 1

\* At most the source session and one destination session are open, and a
\* destination session only while the source session is.
NestedSessions ==
    /\ Cardinality(OpenPairs) <= 2
    /\ Cardinality({h \in OpenPairs : sessions[h].owner = 0}) <= 1
    /\ Cardinality({h \in OpenPairs : sessions[h].owner >= 1}) <= 1
    /\ TargetOpen => SourceOpen

\* The step that closes the source session starts with every destination
\* session closed, and none is opened afterwards.
SourceClosedLast ==
    /\ (SourceOpen /\ ~SourceOpen') => (~TargetOpen /\ ~TargetOpen')
    /\ (~SourceOpen /\ pc # "start") => ~TargetOpen'

\* C19: at most two sessions are open at any time, the source session and
\* at most one destination session; a destination session is open only while
\* the source session is, and the source session is closed only after every
\* destination session that was opened has been closed.
C19_AtMostSourceAndOneTarget == []NestedSessions /\ [][SourceClosedLast]_vars

\* The second destination's session is open next to the source session,
\* after the first destination's session was closed.
C19_Witness ==
    /\ pc = "write_target"
    /\ idx = 2
    /\ Cardinality(OpenPairs) = 2
    /\ \E h \in Pairs : sessions[h].owner = 1 /\ Released(h)

(***************************************************************************)
(* write_remote_file called once on one host (SpecWrite)                   *)
(***************************************************************************)
\* target_dir values main() can pass: target_path is never empty (line 203).
WritePaths == PathPool \ {<<>>}

InitWrite ==
    /\ Idle
    /\ \E t \in TreePool, p \in WritePaths :
         \E f \in 0..Len(Parts(p)), o \in BOOLEAN :
            call = [fn |-> "write_remote_file", dirs |-> t, target_dir |-> p,
                    filename |-> F_kpem, data |-> Content(F_kpem),
                    failAt |-> f, openFails |-> o]
    /\ ret = Pending

CallWrite ==
    /\ call.fn = "write_remote_file"
    /\ ~ret.done
    /\ ret' = [done |-> TRUE,
               w |-> write_remote_file(call.dirs, {}, call.target_dir,
                                       call.filename, call.data, call.failAt,
                                       call.openFails)]
    /\ UNCHANGED <<runVars, call>>

NextWrite == CallWrite

SpecWrite == InitWrite /\ [][NextWrite]_vars

\* The directory ensure_remote_dir probed or created last, as the server
\* resolves it; the directory it was asked for when it probed nothing.
EnsuredDir(dirs, target_dir, failAt) ==
    LET probes == ensure_remote_dir(dirs, target_dir, failAt).probes
    IN  IF probes = <<>> THEN Canon(target_dir)
        ELSE Canon(probes[Len(probes)])

\* The directory the server resolves the opened file's path into.
OpenedDir(remote_file) ==
    SubSeq(Canon(remote_file), 1, Len(Canon(remote_file)) - 1)

\* C20: for every destination path, absolute, relative, "." or "/", the
\* directory write_remote_file ensures through ensure_remote_dir is the
\* directory in which it then opens the file.
C20_OpensWhereEnsured ==
    (call.fn = "write_remote_file" /\ ret.done /\ ret.w.opened # None) =>
        OpenedDir(ret.w.opened) =
            EnsuredDir(call.dirs, call.target_dir, call.failAt)

====
